---- MODULE Spec2Model ----
(***************************************************************************)
(* Store API (src/app/main.py): products, carts, cart line-items and       *)
(* favorites kept in a relational store and mutated by HTTP handlers.      *)
(*                                                                         *)
(* Spec      every handler runs to completion before the next one starts   *)
(*           (one unit of work per request).                               *)
(* SpecConc  add_cart_item and add_favorite requests of several clients    *)
(*           interleave statement by statement: each request reads, then   *)
(*           flushes and commits, then builds its response.                *)
(*                                                                         *)
(* Money is counted in thousandths of a currency unit ("mills"), so that   *)
(* round(total, 2) is a real rounding step; a rounded total is in cents.   *)
(* cart_items maps a row's primary key to the row.  No handler reads or    *)
(* compares the primary key of a favorite, and favorites are never         *)
(* updated, so that table is a bag (multiset) of rows.                     *)
(*                                                                         *)
(* SpecUpdate  update_product with every shape of payload, on a store that *)
(*             already holds products, line-items and favorites.           *)
(*                                                                         *)
(* SpecList    list_products with every query, page and limit, on a store  *)
(*             that holds up to three products.                            *)
(*                                                                         *)
(* A text is a sequence of characters; the values of the optional columns  *)
(* that no handler inspects are texts too.                                 *)
(***************************************************************************)
EXTENDS Integers, FiniteSets, Sequences, Bags, TLC

\* ---------------------------------------------------------------- bounds
\* the largest quantity a request asks for, and the largest a line-item holds
MaxQty == 2
MaxLineQty == 3
\* the number of requests in flight under SpecConc
MaxClients == 2
\* the largest page a list_products request asks for
MaxPage == 3
\* limit: int = Query(10, ge=1, le=100)
MaxLimit == 100

\* the primary keys the store hands out; a deleted row's key may be reused
ProductIds == {1, 2}
CartIds == {1, 2}
ItemIds == {1, 2}
\* under SpecConc every request finds a free key
ConcItemIds == 1..(MaxClients + 1)
Quantities == 1..MaxQty
Clients == 1..MaxClients
\* PositiveFloat prices, in mills: 1.004 and 0.25
Prices == {1004, 250}

VARIABLES products, carts, cart_items, favorites, fk_enforced, resp, reqs

vars == <<products, carts, cart_items, favorites, fk_enforced, resp, reqs>>
store == <<products, carts, cart_items, favorites, fk_enforced>>

\* ------------------------------------------------------------ the tables
\* a row of cart_items
CartItemORM(c, p, q) == [cart_id |-> c, product_id |-> p, quantity |-> q]
\* a row of favorites
FavoriteORM(p) == [product_id |-> p]
\* None, as the value of a text column or field
None == <<"None">>
\* null as the price of an update payload (a price is positive)
NonePrice == 0
\* the columns of products other than id, filled from a ProductBase payload
ProductBase(name, description, price, stock, brand, category) ==
    [name |-> name, description |-> description, price |-> price,
     discount_percentage |-> None, rating |-> None, stock |-> stock,
     brand |-> brand, category |-> category, thumbnail |-> None,
     images |-> None]
\* a row of products: the one create_product stores for {name: "A", price}
ProductORM(price) == ProductBase(<<"A">>, None, price, None, None, None)

\* db.get(ProductORM, id) / db.get(CartORM, id)
HasProduct(prods, p) == p \in DOMAIN prods
HasCart(cs, c) == c \in cs
\* an id the store may assign to a new row: any id no row of the table holds
FreeIds(universe, used) == universe \ used

\* the rows of a table whose keys are in S
Restrict(rows, S) == [i \in S |-> rows[i]]
\* cart.items: the keys of the line-items of one cart
CartItemsOf(rows, c) == {i \in DOMAIN rows : rows[i].cart_id = c}
\* (ci for ci in cart.items if ci.product_id == product_id)
Matching(rows, c, p) ==
    {i \in CartItemsOf(rows, c) : rows[i].product_id = p}
\* favorites filtered by product_id
FavoritesOf(favs, p) == {r \in DOMAIN favs : r.product_id = p}

\* ------------------------------------------------------------ cart total
\* round(x, 2): mills to cents, to nearest, a tie to the even cent
Round2(m) ==
    LET q == m \div 10
        r == m % 10
    IN  IF r < 5 THEN q
        ELSE IF r > 5 THEN q + 1
        ELSE IF q % 2 = 0 THEN q ELSE q + 1

ItemAmountUnit(item, prods) ==
    IF HasProduct(prods, item.product_id)
    THEN prods[item.product_id].price
    ELSE 0
\* one turn of the loop: an item whose product is gone adds nothing
ItemAmount(item, prods) ==
    IF HasProduct(prods, item.product_id)
    THEN prods[item.product_id].price * item.quantity
    ELSE 0

\* total += item.product.price * item.quantity, over the items with keys S
RECURSIVE SumItems(_, _, _)
SumItems(rows, S, prods) ==
    IF S = {} THEN 0
    ELSE LET i == CHOOSE x \in S : TRUE
         IN  ItemAmount(rows[i], prods) + SumItems(rows, S \ {i}, prods)

\* the total of cart c
calculate_cart_total(rows, prods, c) ==
    Round2(SumItems(rows, CartItemsOf(rows, c), prods))

\* [CartItem(product_id, quantity) for ci in cart.items], in key order
PydanticItems(rows, c) ==
    [i \in CartItemsOf(rows, c) |->
        [product_id |-> rows[i].product_id, quantity |-> rows[i].quantity]]

\* CartSummary(id, items, total) of cart c read from the given tables
CartSummary(rows, prods, c) ==
    [items |-> PydanticItems(rows, c),
     total |-> calculate_cart_total(rows, prods, c)]

\* ------------------------------------------------------------- responses
NoSummaries == [c \in {} |-> 0]
\* payload.model_dump(exclude_unset=True) of a request that carries no field
NoFields == [f \in {} |-> 0]
\* hit: whether the handler's lookup of dependent rows found one (existing,
\* item, or the line-items a delete cascades to)
Response(op, status, detail, c, p, q, hit, summaries) ==
    [op |-> op, status |-> status, detail |-> detail, cart_id |-> c,
     product_id |-> p, quantity |-> q, hit |-> hit, summaries |-> summaries,
     payload |-> NoFields, page |-> NoFields]
NoResponse == Response("none", 0, "", 0, 0, 0, FALSE, NoSummaries)
OneSummary(rows, prods, c) == [x \in {c} |-> CartSummary(rows, prods, x)]

NoRows == [i \in {} |-> 0]
\* a request in flight: its arguments, the locals of its handler (existing,
\* loaded) and, once "done", its response
Request(pc, op, c, p, q, existing, loaded, status, summaries) ==
    [pc |-> pc, op |-> op, cart_id |-> c, product_id |-> p, quantity |-> q,
     existing |-> existing, loaded |-> loaded, status |-> status,
     summaries |-> summaries]
Idle == Request("idle", "none", 0, 0, 0, 0, 0, 0, NoSummaries)
NoRequests == [k \in Clients |-> Idle]

Init ==
    /\ products = [p \in {} |-> 0]
    /\ carts = {}
    /\ cart_items = NoRows
    /\ favorites = EmptyBag
    /\ fk_enforced \in BOOLEAN
    /\ resp = NoResponse
    /\ reqs = NoRequests

\* --------------------------------------------------------------- products
create_product ==
    \E id \in FreeIds(ProductIds, DOMAIN products), price \in Prices :
        /\ products' = [x \in DOMAIN products \cup {id} |->
                          IF x = id THEN ProductORM(price) ELSE products[x]]
        /\ resp' = Response("create_product", 201, "", 0, id, 0, FALSE,
                            NoSummaries)
        /\ UNCHANGED <<carts, cart_items, favorites, fk_enforced, reqs>>

\* the update payloads that carry at most a price
ProductUpdate == {NoFields} \cup {[price |-> x] : x \in Prices}
SetAttrsUnsetToNone(product, payload) ==
    [f \in DOMAIN product |->
        IF f \in DOMAIN payload THEN payload[f]
        ELSE IF f \in {"name", "description"} THEN None
        ELSE product[f]]
\* for key, value in payload: setattr(product, key, value)
SetAttrs(product, payload) ==
    [f \in DOMAIN product |->
        IF f \in DOMAIN payload THEN payload[f] ELSE product[f]]

\* name and price are NOT NULL columns (Mapped[str], Mapped[float])
NotNullViolation(product) ==
    product.name = None \/ product.price = NonePrice

\* update_product for an id of ids and a payload of payloads
UpdateProduct(ids, payloads) ==
    \E p \in ids, payload \in payloads :
        /\ IF ~HasProduct(products, p)
           THEN /\ resp' = [Response("update_product", 404,
                                     "Product not found", 0, p, 0, FALSE,
                                     NoSummaries)
                               EXCEPT !.payload = payload]
                /\ UNCHANGED products
           ELSE IF NotNullViolation(SetAttrs(products[p], payload))
           THEN \* IntegrityError at commit: the unit of work is rolled back
                /\ resp' = [Response("update_product", 500, "", 0, p, 0,
                                     FALSE, NoSummaries)
                               EXCEPT !.payload = payload]
                /\ UNCHANGED products
           ELSE /\ products' = [products EXCEPT ![p] = SetAttrs(@, payload)]
                /\ resp' = [Response("update_product", 200, "", 0, p, 0,
                                     FALSE, NoSummaries)
                               EXCEPT !.payload = payload]
        /\ UNCHANGED <<carts, cart_items, favorites, fk_enforced, reqs>>

update_product == UpdateProduct(ProductIds, ProductUpdate)

DeleteProductItemsNone(rows, p) == rows
\* cascade="all, delete-orphan" on ProductORM.items: the rows of cart_items
\* left after the line-items of product p are deleted with it
DeleteProductItems(rows, p) ==
    Restrict(rows, {i \in DOMAIN rows : rows[i].product_id # p})
\* favorites.product_id is a plain foreign key (no ON DELETE action): a store
\* that enforces foreign keys rejects the DELETE of a favorited product
ForeignKeyViolation(favs, enforced, p) ==
    enforced /\ FavoritesOf(favs, p) # {}

delete_product ==
    \E p \in ProductIds :
        /\ IF ~HasProduct(products, p)
           THEN /\ resp' = Response("delete_product", 404, "Product not found",
                                    0, p, 0, FALSE, NoSummaries)
                /\ UNCHANGED <<products, cart_items>>
           ELSE IF ForeignKeyViolation(favorites, fk_enforced, p)
           THEN \* IntegrityError at commit: the unit of work is rolled back
                /\ resp' = Response("delete_product", 500, "", 0, p, 0, FALSE,
                                    NoSummaries)
                /\ UNCHANGED <<products, cart_items>>
           ELSE /\ products' = [x \in DOMAIN products \ {p} |-> products[x]]
                /\ cart_items' = DeleteProductItems(cart_items, p)
                /\ resp' = Response("delete_product", 204, "", 0, p, 0,
                       DeleteProductItems(cart_items, p) # cart_items,
                       NoSummaries)
        /\ UNCHANGED <<carts, favorites, fk_enforced, reqs>>

\* ------------------------------------------------------------------ carts
list_carts ==
    /\ resp' = Response("list_carts", 200, "", 0, 0, 0, FALSE,
                        [c \in carts |-> CartSummary(cart_items, products, c)])
    /\ UNCHANGED <<store, reqs>>

create_cart ==
    \E id \in FreeIds(CartIds, carts) :
        /\ carts' = carts \cup {id}
        /\ resp' = Response("create_cart", 201, "", id, 0, 0, FALSE,
                            NoSummaries)
        /\ UNCHANGED <<products, cart_items, favorites, fk_enforced, reqs>>

get_cart ==
    \E c \in CartIds :
        /\ IF ~HasCart(carts, c)
           THEN resp' = Response("get_cart", 404, "Cart not found", c, 0, 0,
                                 FALSE, NoSummaries)
           ELSE resp' = Response("get_cart", 200, "", c, 0, 0, FALSE,
                                 OneSummary(cart_items, products, c))
        /\ UNCHANGED <<store, reqs>>

\* the key of no row: the lookup found nothing
NoRow == 0
FirstMatchingNone(rows, c, p) == {NoRow}
\* next((ci for ci in cart.items if ci.product_id == product_id), None);
\* cart.items is loaded without an ORDER BY, so "first" is any match
FirstMatching(rows, c, p) ==
    IF Matching(rows, c, p) = {} THEN {NoRow} ELSE Matching(rows, c, p)

IncrementItemReplace(rows, existing, loaded, q) ==
    [rows EXCEPT ![existing].quantity = q]
\* existing.quantity += item.quantity on the loaded object, written back as
\* UPDATE cart_items SET quantity = <loaded + q> WHERE id = <existing>
IncrementItem(rows, existing, loaded, q) ==
    [rows EXCEPT ![existing].quantity = loaded + q]
\* db.add(CartItemORM(cart_id, product_id, quantity)), stored under key id
InsertItem(rows, id, c, p, q) ==
    [i \in DOMAIN rows \cup {id} |->
        IF i = id THEN CartItemORM(c, p, q) ELSE rows[i]]
\* the quantity of the row the lookup returned, as loaded
LoadedQuantity(rows, existing) ==
    IF existing = NoRow THEN 0 ELSE rows[existing].quantity
\* the if/else of add_cart_item on the row the lookup returned: the tables
\* the commit may leave, one for each key in ids the store may give a new row
AddItemRows(rows, ids, c, p, q, existing) ==
    IF existing # NoRow
    THEN {IncrementItem(rows, existing, LoadedQuantity(rows, existing), q)}
    ELSE {InsertItem(rows, id, c, p, q) : id \in FreeIds(ids, DOMAIN rows)}

AddItemNotFoundProductFirst(cs, prods, c, p) ==
    IF ~HasProduct(prods, p) THEN "Product not found"
    ELSE IF ~HasCart(cs, c) THEN "Cart not found"
    ELSE ""
\* the 404 of add_cart_item, "" when cart and product both exist
AddItemNotFound(cs, prods, c, p) ==
    IF ~HasCart(cs, c) THEN "Cart not found"
    ELSE IF ~HasProduct(prods, p) THEN "Product not found"
    ELSE ""

add_cart_item ==
    \E c \in CartIds, p \in ProductIds, q \in Quantities :
        /\ IF AddItemNotFound(carts, products, c, p) # ""
           THEN /\ resp' = Response("add_cart_item", 404,
                                    AddItemNotFound(carts, products, c, p),
                                    c, p, q, FALSE, NoSummaries)
                /\ UNCHANGED cart_items
           ELSE \E existing \in FirstMatching(cart_items, c, p) :
                \* the model stops at MaxLineQty units in a line-item
                /\ LoadedQuantity(cart_items, existing) + q <= MaxLineQty
                /\ cart_items' \in
                       AddItemRows(cart_items, ItemIds, c, p, q, existing)
                /\ resp' = Response("add_cart_item", 200, "", c, p, q,
                                    existing # NoRow,
                                    OneSummary(cart_items', products, c))
        /\ UNCHANGED <<products, carts, favorites, fk_enforced, reqs>>

DeleteItemWholeCart(rows, item) ==
    Restrict(rows, {i \in DOMAIN rows : rows[i].cart_id # rows[item].cart_id})
\* db.delete(item)
DeleteItem(rows, item) == Restrict(rows, DOMAIN rows \ {item})

remove_cart_item ==
    \E c \in CartIds, p \in ProductIds :
        /\ IF ~HasCart(carts, c)
           THEN /\ resp' = Response("remove_cart_item", 404, "Cart not found",
                                    c, p, 0, FALSE, NoSummaries)
                /\ UNCHANGED cart_items
           ELSE \E item \in FirstMatching(cart_items, c, p) :
                /\ cart_items' = IF item # NoRow
                                 THEN DeleteItem(cart_items, item)
                                 ELSE cart_items
                /\ resp' = Response("remove_cart_item", 200, "", c, p, 0,
                                    item # NoRow,
                                    OneSummary(cart_items', products, c))
        /\ UNCHANGED <<products, carts, favorites, fk_enforced, reqs>>

DeleteCartItemsNone(rows, c) == rows
\* cascade="all, delete-orphan" on CartORM.items
DeleteCartItems(rows, c) == Restrict(rows, DOMAIN rows \ CartItemsOf(rows, c))

delete_cart ==
    \E c \in CartIds :
        /\ IF ~HasCart(carts, c)
           THEN /\ resp' = Response("delete_cart", 404, "Cart not found",
                                    c, 0, 0, FALSE, NoSummaries)
                /\ UNCHANGED <<carts, cart_items>>
           ELSE /\ carts' = carts \ {c}
                /\ cart_items' = DeleteCartItems(cart_items, c)
                /\ resp' = Response("delete_cart", 204, "", c, 0, 0,
                                    CartItemsOf(cart_items, c) # {},
                                    NoSummaries)
        /\ UNCHANGED <<products, favorites, fk_enforced, reqs>>

\* -------------------------------------------------------------- favorites
FavoriteExistingNever(favs, p) == FALSE
\* db.query(FavoriteORM).filter(product_id == p).first() is not None
FavoriteExisting(favs, p) == FavoritesOf(favs, p) # {}
\* unique=True on favorites.product_id: the INSERT of a second row for p fails
UniqueViolation(favs, p) == FavoritesOf(favs, p) # {}
\* db.add(FavoriteORM(product_id))
InsertFavorite(favs, p) == favs (+) SetToBag({FavoriteORM(p)})

add_favorite ==
    \E p \in ProductIds :
        /\ IF ~HasProduct(products, p)
           THEN /\ resp' = Response("add_favorite", 404, "Product not found",
                                    0, p, 0, FALSE, NoSummaries)
                /\ UNCHANGED favorites
           ELSE IF FavoriteExisting(favorites, p)
           THEN /\ resp' = Response("add_favorite", 201, "", 0, p, 0, TRUE,
                                    NoSummaries)
                /\ UNCHANGED favorites
           ELSE IF UniqueViolation(favorites, p)
           THEN \* IntegrityError at commit, nothing is caught: 500
                /\ resp' = Response("add_favorite", 500, "", 0, p, 0, FALSE,
                                    NoSummaries)
                /\ UNCHANGED favorites
           ELSE /\ favorites' = InsertFavorite(favorites, p)
                /\ resp' = Response("add_favorite", 201, "", 0, p, 0, FALSE,
                                    NoSummaries)
        /\ UNCHANGED <<products, carts, cart_items, fk_enforced, reqs>>

remove_favorite ==
    \E p \in ProductIds :
        /\ IF FavoritesOf(favorites, p) = {}
           THEN /\ resp' = Response("remove_favorite", 404,
                                    "Favorite not found", 0, p, 0, FALSE,
                                    NoSummaries)
                /\ UNCHANGED favorites
           ELSE \E favorite \in FavoritesOf(favorites, p) :
                /\ favorites' = favorites (-) SetToBag({favorite})
                /\ resp' = Response("remove_favorite", 204, "", 0, p, 0, TRUE,
                                    NoSummaries)
        /\ UNCHANGED <<products, carts, cart_items, fk_enforced, reqs>>

\* ------------------------------------------- interleaved requests
\* the store before the first request: every product and cart exists, no
\* favorite, and at most one line-item
InitConc ==
    /\ products \in [ProductIds -> {ProductORM(x) : x \in Prices}]
    /\ carts = CartIds
    /\ cart_items \in {NoRows} \cup
         {InsertItem(NoRows, 1, c, p, q) :
             c \in CartIds, p \in ProductIds, q \in Quantities}
    /\ favorites = EmptyBag
    /\ fk_enforced \in BOOLEAN
    /\ resp = NoResponse
    /\ reqs = NoRequests

\* add_cart_item up to the lookup of existing (lines 286-297)
AddItemRead(k) ==
    /\ reqs[k].pc = "idle"
    /\ \E c \in CartIds, p \in ProductIds, q \in Quantities :
         IF AddItemNotFound(carts, products, c, p) # ""
         THEN reqs' = [reqs EXCEPT ![k] =
                  Request("done", "add_cart_item", c, p, q, NoRow, 0, 404,
                          NoSummaries)]
         ELSE \E existing \in FirstMatching(cart_items, c, p) :
              reqs' = [reqs EXCEPT ![k] =
                  Request("commit", "add_cart_item", c, p, q, existing,
                          LoadedQuantity(cart_items, existing), 0,
                          NoSummaries)]
    /\ UNCHANGED <<store, resp>>

\* the if/else and db.commit() (lines 299-307): the flush writes the row
AddItemCommit(k) ==
    /\ reqs[k].pc = "commit"
    /\ reqs[k].op = "add_cart_item"
    /\ IF reqs[k].existing # NoRow
       THEN cart_items' = IncrementItem(cart_items, reqs[k].existing,
                                        reqs[k].loaded, reqs[k].quantity)
       ELSE \E id \in FreeIds(ConcItemIds, DOMAIN cart_items) :
                cart_items' = InsertItem(cart_items, id, reqs[k].cart_id,
                                  reqs[k].product_id, reqs[k].quantity)
    /\ reqs' = [reqs EXCEPT ![k].pc = "refresh"]
    /\ UNCHANGED <<products, carts, favorites, fk_enforced, resp>>

\* db.refresh(cart) and the summary (lines 308-315)
AddItemRefresh(k) ==
    /\ reqs[k].pc = "refresh"
    /\ reqs' = [reqs EXCEPT ![k].pc = "done", ![k].status = 200,
                   ![k].summaries =
                       OneSummary(cart_items, products, reqs[k].cart_id)]
    /\ UNCHANGED <<store, resp>>

\* add_favorite up to the early return (lines 360-367)
AddFavoriteRead(k) ==
    /\ reqs[k].pc = "idle"
    /\ \E p \in ProductIds :
         reqs' = [reqs EXCEPT ![k] =
             IF ~HasProduct(products, p)
             THEN Request("done", "add_favorite", 0, p, 0, NoRow, 0, 404,
                          NoSummaries)
             ELSE IF FavoriteExisting(favorites, p)
             THEN Request("done", "add_favorite", 0, p, 0, NoRow, 0, 201,
                          NoSummaries)
             ELSE Request("commit", "add_favorite", 0, p, 0, NoRow, 0, 0,
                          NoSummaries)]
    /\ UNCHANGED <<store, resp>>

\* db.add(favorite) and db.commit() (lines 368-371)
AddFavoriteCommit(k) ==
    /\ reqs[k].pc = "commit"
    /\ reqs[k].op = "add_favorite"
    /\ IF UniqueViolation(favorites, reqs[k].product_id)
       THEN /\ reqs' = [reqs EXCEPT ![k].pc = "done", ![k].status = 500]
            /\ UNCHANGED favorites
       ELSE /\ favorites' = InsertFavorite(favorites, reqs[k].product_id)
            /\ reqs' = [reqs EXCEPT ![k].pc = "done", ![k].status = 201]
    /\ UNCHANGED <<products, carts, cart_items, fk_enforced, resp>>

NextConc ==
    \/ \E k \in Clients : AddItemRead(k)
    \/ \E k \in Clients : AddItemCommit(k)
    \/ \E k \in Clients : AddItemRefresh(k)
    \/ \E k \in Clients : AddFavoriteRead(k)
    \/ \E k \in Clients : AddFavoriteCommit(k)

SpecConc == InitConc /\ [][NextConc]_vars

\* ------------------------------------------------- updates of products
Names == {<<"A">>, <<"a", "b">>}
Descriptions == {<<"B">>}
\* rows a store holds after create_product requests
CatalogRows ==
    {ProductBase(<<"A">>, None, 1004, None, None, None),
     ProductBase(<<"a", "b">>, <<"B">>, 250, <<"7">>, <<"b">>, <<"A", "b">>)}
\* the union of two payloads that carry different fields
Fields(a, b) ==
    [f \in DOMAIN a \cup DOMAIN b |-> IF f \in DOMAIN a THEN a[f] ELSE b[f]]
\* ProductUpdate: each of name, description and price is unset, null or a
\* value
ProductUpdateAny ==
    {Fields(n, Fields(d, x)) :
        n \in {NoFields} \cup {[name |-> v] : v \in Names \cup {None}},
        d \in {NoFields}
                \cup {[description |-> v] : v \in Descriptions \cup {None}},
        x \in {NoFields} \cup {[price |-> v] : v \in Prices \cup {NonePrice}}}

\* a store with products, a line-item and a favorite of each product
InitUpdate ==
    /\ \E S \in SUBSET ProductIds : products \in [S -> CatalogRows]
    /\ carts = CartIds
    /\ cart_items = [i \in DOMAIN products |->
                        CartItemORM(CHOOSE c \in CartIds : TRUE, i, 1)]
    /\ favorites = SetToBag({FavoriteORM(p) : p \in DOMAIN products})
    /\ fk_enforced \in BOOLEAN
    /\ resp = NoResponse
    /\ reqs = NoRequests

update_product_any == UpdateProduct(ProductIds, ProductUpdateAny)

NextUpdate == update_product_any

SpecUpdate == InitUpdate /\ [][NextUpdate]_vars

\* ---------------------------------------------------- list of products
CatalogIds == {1, 2, 3}
\* q, page and limit of a request; page 0 and limits 0 and 101 are invalid
Queries == {<< >>, <<"a">>, <<"B">>, <<"_", "b">>, <<"7">>}
PageParams == 0..MaxPage
LimitParams == {0, 1, 2, MaxLimit, MaxLimit + 1}

\* case folding, on the characters the texts of the model are written in
Lower(ch) == IF ch = "A" THEN "a" ELSE IF ch = "B" THEN "b" ELSE ch
\* one character of an ILIKE pattern against one of the value: "_" matches
\* any character
LikeChar(pc, vc) == pc = "_" \/ Lower(pc) = Lower(vc)
\* column.ilike(f"%{q}%"): NULL matches nothing
Ilike(value, q) ==
    /\ value # None
    /\ \E i \in 0..(Len(value) - Len(q)) :
           \A j \in 1..Len(q) : LikeChar(q[j], value[i + j])
\* if q: filter(or_(name, description, brand, category ilike))
MatchesQuery(product, q) ==
    \/ q = << >>
    \/ Ilike(product.name, q)
    \/ Ilike(product.description, q)
    \/ Ilike(product.brand, q)
    \/ Ilike(product.category, q)
\* the ids of the rows the query selects
QueryIds(prods, q) == {i \in DOMAIN prods : MatchesQuery(prods[i], q)}

PageCountFloor(total, limit) == IF total # 0 THEN total \div limit ELSE 0
\* pages = (total + limit - 1) // limit if total else 0
PageCount(total, limit) ==
    IF total # 0 THEN (total + limit - 1) \div limit ELSE 0
\* offset = (page - 1) * limit
Offset(page, limit) == (page - 1) * limit
\* the orders a query without ORDER BY may return the rows S in
Orders(S) ==
    {o \in [1..Cardinality(S) -> S] :
        \A j, k \in 1..Cardinality(S) : j # k => o[j] # o[k]}
\* query.offset(offset).limit(limit).all() on the rows in order ord
OffsetLimit(ord, offset, limit) ==
    IF offset >= Len(ord) THEN << >>
    ELSE SubSeq(ord, offset + 1,
                IF offset + limit < Len(ord) THEN offset + limit ELSE Len(ord))
\* Product.model_validate(p)
Product(id, product) == Fields([id |-> id], product)
ProductPage(page, pages, limit, total, prods) ==
    [page |-> page, pages |-> pages, limit |-> limit, total |-> total,
     products |-> prods]

list_products ==
    \E q \in Queries, page \in PageParams, limit \in LimitParams :
        /\ IF page < 1 \/ limit < 1 \/ limit > MaxLimit
           THEN resp' = [Response("list_products", 422, "", 0, 0, 0, FALSE,
                                  NoSummaries)
                            EXCEPT !.payload =
                                [q |-> q, page |-> page, limit |-> limit]]
           ELSE \E ord \in Orders(QueryIds(products, q)) :
                LET total == Cardinality(QueryIds(products, q))
                    ids == OffsetLimit(ord, Offset(page, limit), limit)
                IN  resp' = [Response("list_products", 200, "", 0, 0, 0,
                                      FALSE, NoSummaries)
                                EXCEPT !.payload =
                                    [q |-> q, page |-> page, limit |-> limit],
                                       !.page =
                                    ProductPage(page, PageCount(total, limit),
                                        limit, total,
                                        [k \in 1..Len(ids) |->
                                            Product(ids[k], products[ids[k]])])]
        /\ UNCHANGED <<store, reqs>>

\* a store with up to three products and nothing else
InitList ==
    /\ \E S \in SUBSET CatalogIds : products \in [S -> CatalogRows]
    /\ carts = {}
    /\ cart_items = NoRows
    /\ favorites = EmptyBag
    /\ fk_enforced \in BOOLEAN
    /\ resp = NoResponse
    /\ reqs = NoRequests

NextList == list_products

SpecList == InitList /\ [][NextList]_vars

Next ==
    \/ create_product
    \/ update_product
    \/ delete_product
    \/ list_carts
    \/ create_cart
    \/ get_cart
    \/ add_cart_item
    \/ remove_cart_item
    \/ delete_cart
    \/ add_favorite
    \/ remove_favorite

Spec == Init /\ [][Next]_vars

\* ================================================================ claims
\* the line-items of cart c for product p hold this many units
RECURSIVE QuantityOver(_, _)
QuantityOver(rows, S) ==
    IF S = {} THEN 0
    ELSE LET i == CHOOSE x \in S : TRUE
         IN  rows[i].quantity + QuantityOver(rows, S \ {i})
QuantityOf(rows, c, p) == QuantityOver(rows, Matching(rows, c, p))

\* C1: in every state the sequential API reaches, a (cart, product) pair has
\* at most one row of cart_items.
OneLineItemPerCartProduct ==
    \A c \in CartIds, p \in ProductIds :
        Cardinality(Matching(cart_items, c, p)) <= 1
\* an add_cart_item has just incremented the line-item it found
RepeatAddKeptOneRow ==
    /\ resp.op = "add_cart_item"
    /\ resp.status = 200
    /\ resp.hit
    /\ Cardinality(Matching(cart_items, resp.cart_id, resp.product_id)) = 1

\* C2: whatever the interleaving of concurrent add_cart_item requests, once
\* every request has answered no cart holds two line-items of one product.
ConcurrentAddItemOneLineItem ==
    (\A k \in Clients : reqs[k].pc = "done") =>
        \A c \in CartIds, p \in ProductIds :
            Cardinality(Matching(cart_items, c, p)) <= 1

\* C3: a delete_product that answers 204 leaves no favorite of that product,
\* and no state holds a favorite whose product does not exist.
DeleteProductRemovesFavorite ==
    /\ (resp.op = "delete_product" /\ resp.status = 204) =>
           FavoritesOf(favorites, resp.product_id) = {}
    /\ \A f \in DOMAIN favorites : HasProduct(products, f.product_id)

\* C4: a delete_product that answers 204 deletes every line-item of that
\* product in every cart and no other line-item; the summary of every cart
\* then lists no item of the product and totals the items that are left.
DeleteProductStep ==
    (resp'.op = "delete_product" /\ resp'.status = 204) =>
        LET p == resp'.product_id
            others == {i \in DOMAIN cart_items : cart_items[i].product_id # p}
        IN  /\ \A i \in DOMAIN cart_items' : cart_items'[i].product_id # p
            /\ cart_items' = Restrict(cart_items, others)
            /\ carts' = carts
            /\ \A c \in carts :
                 LET after == CartSummary(cart_items', products', c)
                 IN  /\ \A i \in DOMAIN after.items :
                            after.items[i].product_id # p
                     /\ after.total =
                            Round2(SumItems(cart_items,
                                     others \cap CartItemsOf(cart_items, c),
                                     products))
DeleteProductCascadesItems == [][DeleteProductStep]_vars
\* a product with line-items has just been deleted, another line-item is left
DeletedProductHadItems ==
    /\ resp.op = "delete_product"
    /\ resp.status = 204
    /\ resp.hit
    /\ DOMAIN cart_items # {}

\* C5: an add_cart_item that answers 200 leaves exactly one line-item of the
\* product in the cart, holding the quantity held before plus the quantity
\* asked for (the quantity asked for when the cart held none); so q1 then q2
\* and q2 then q1 both end with q1+q2 more.
AddItemStep ==
    (resp'.op = "add_cart_item" /\ resp'.status = 200) =>
        LET c == resp'.cart_id
            p == resp'.product_id
        IN  /\ Cardinality(Matching(cart_items', c, p)) = 1
            /\ QuantityOf(cart_items', c, p) =
                   QuantityOf(cart_items, c, p) + resp'.quantity
            /\ \A i \in DOMAIN cart_items \ Matching(cart_items, c, p) :
                   i \in DOMAIN cart_items' /\ cart_items'[i] = cart_items[i]
\* the tables add_cart_item(c, p, q) may leave, and those two in a row leave
AddItemResults(rows, c, p, q) ==
    UNION {AddItemRows(rows, ItemIds, c, p, q, e) :
              e \in FirstMatching(rows, c, p)}
AddItemTwice(rows, c, p, q1, q2) ==
    UNION {AddItemResults(r, c, p, q2) : r \in AddItemResults(rows, c, p, q1)}
AddItemCommutes ==
    \A c \in carts, p \in DOMAIN products, q1, q2 \in Quantities :
        /\ AddItemTwice(cart_items, c, p, q1, q2)
               = AddItemTwice(cart_items, c, p, q2, q1)
        /\ \A r \in AddItemTwice(cart_items, c, p, q1, q2) :
               /\ Cardinality(Matching(r, c, p)) = 1
               /\ QuantityOf(r, c, p) = QuantityOf(cart_items, c, p) + q1 + q2
AddItemAccumulates == [][AddItemStep]_vars /\ []AddItemCommutes
\* quantity 2 has just been added to a line-item that held 1
AddedTwoToOne ==
    /\ resp.op = "add_cart_item"
    /\ resp.status = 200
    /\ resp.hit
    /\ resp.quantity = 2
    /\ QuantityOf(cart_items, resp.cart_id, resp.product_id) = 3

\* C6: the total of every summary that get_cart, list_carts, add_cart_item
\* and remove_cart_item return is the sum of price * quantity over the
\* line-items the cart holds after the operation, to the nearest cent; an
\* empty cart totals 0.
RECURSIVE PricedOver(_, _)
PricedOver(c, P) ==
    IF P = {} THEN 0
    ELSE LET p == CHOOSE x \in P : TRUE
         IN  products[p].price * QuantityOf(cart_items, c, p)
                 + PricedOver(c, P \ {p})
SummaryOps == {"get_cart", "list_carts", "add_cart_item", "remove_cart_item"}
TotalIsPriceTimesQuantity ==
    (resp.op \in SummaryOps /\ resp.status = 200) =>
        \A c \in DOMAIN resp.summaries :
            LET exact == PricedOver(c, DOMAIN products)
                total == resp.summaries[c].total
            IN  /\ 10 * total - 5 <= exact
                /\ exact <= 10 * total + 5
                /\ CartItemsOf(cart_items, c) = {} => total = 0
\* a summary of two line-items whose exact sum is not a whole number of cents
SummaryOfTwoItemsRounded ==
    /\ resp.op \in SummaryOps
    /\ resp.status = 200
    /\ \E c \in DOMAIN resp.summaries :
         /\ Cardinality(DOMAIN resp.summaries[c].items) = 2
         /\ PricedOver(c, DOMAIN products) % 10 # 0
         /\ \E i \in CartItemsOf(cart_items, c) : cart_items[i].quantity > 1

\* C7: add_favorite on an existing product answers 201 and leaves exactly one
\* favorite of it, the first time and every time after; no state the
\* sequential API reaches holds two favorites of one product.
AddFavoriteIdempotent ==
    /\ \A p \in ProductIds : CopiesIn(FavoriteORM(p), favorites) <= 1
    /\ (resp.op = "add_favorite" /\ HasProduct(products, resp.product_id)) =>
           /\ resp.status = 201
           /\ CopiesIn(FavoriteORM(resp.product_id), favorites) = 1
\* add_favorite has just answered for a product that was already a favorite
SecondAddFavoriteSucceeded ==
    /\ resp.op = "add_favorite"
    /\ resp.hit
    /\ resp.status = 201
    /\ CopiesIn(FavoriteORM(resp.product_id), favorites) = 1

\* C8: two concurrent add_favorite requests for the same product both answer
\* 201 and leave exactly one favorite of it.
ConcurrentAddFavoriteBothSucceed ==
    \A j, k \in Clients :
        (/\ j # k
         /\ reqs[j].pc = "done" /\ reqs[j].op = "add_favorite"
         /\ reqs[k].pc = "done" /\ reqs[k].op = "add_favorite"
         /\ reqs[j].product_id = reqs[k].product_id) =>
            /\ reqs[j].status = 201
            /\ reqs[k].status = 201
            /\ CopiesIn(FavoriteORM(reqs[j].product_id), favorites) = 1

\* C9: add_cart_item answers 404 "Cart not found" when the cart is missing
\* (whether or not the product exists), 404 "Product not found" when the cart
\* exists and the product is missing, and changes nothing in either case; it
\* answers 200 only when both exist.
AddItemNotFoundStep ==
    resp'.op = "add_cart_item" =>
        LET c == resp'.cart_id
            p == resp'.product_id
        IN  /\ ~HasCart(carts, c) =>
                 /\ resp'.status = 404
                 /\ resp'.detail = "Cart not found"
                 /\ UNCHANGED store
            /\ (HasCart(carts, c) /\ ~HasProduct(products, p)) =>
                 /\ resp'.status = 404
                 /\ resp'.detail = "Product not found"
                 /\ UNCHANGED store
            /\ (HasCart(carts, c) /\ HasProduct(products, p)) =>
                 resp'.status = 200
AddItemChecksCartThenProduct == [][AddItemNotFoundStep]_vars
\* add_cart_item has just answered for a missing cart and a missing product
AddItemBothMissing ==
    /\ resp.op = "add_cart_item"
    /\ resp.status = 404
    /\ resp.detail = "Cart not found"
    /\ ~HasCart(carts, resp.cart_id)
    /\ ~HasProduct(products, resp.product_id)
    /\ carts # {}
    /\ DOMAIN products # {}

\* C10: remove_cart_item on a missing cart answers 404 and changes nothing;
\* on a cart without a line-item of the product it answers 200 with the
\* cart's summary and changes nothing; otherwise it deletes exactly one
\* line-item, of that cart and product, and leaves every other row of every
\* table as it was.
RemoveItemStep ==
    resp'.op = "remove_cart_item" =>
        LET c == resp'.cart_id
            p == resp'.product_id
        IN  /\ ~HasCart(carts, c) =>
                 resp'.status = 404 /\ UNCHANGED store
            /\ (HasCart(carts, c) /\ Matching(cart_items, c, p) = {}) =>
                 /\ resp'.status = 200
                 /\ resp'.summaries = OneSummary(cart_items, products, c)
                 /\ UNCHANGED store
            /\ (HasCart(carts, c) /\ Matching(cart_items, c, p) # {}) =>
                 /\ resp'.status = 200
                 /\ \E i \in Matching(cart_items, c, p) :
                        cart_items' = Restrict(cart_items,
                                               DOMAIN cart_items \ {i})
                 /\ UNCHANGED <<products, carts, favorites, fk_enforced>>
RemoveItemDeletesOnlyThatItem == [][RemoveItemStep]_vars
\* remove_cart_item has just deleted one of the two line-items of a cart
RemovedOneOfTwo ==
    /\ resp.op = "remove_cart_item"
    /\ resp.status = 200
    /\ resp.hit
    /\ CartItemsOf(cart_items, resp.cart_id) # {}

\* C11: a cart is a row whether or not it holds line-items, and only
\* delete_cart removes it: a remove_cart_item that empties a cart leaves the
\* cart, get_cart then answers items [] and total 0 and add_cart_item still
\* answers 200; a delete_cart that answers 204 removes the cart and exactly
\* its line-items and leaves the other carts, the products and the favorites;
\* get_cart, add_cart_item, remove_cart_item and delete_cart on an id that is
\* no cart answer 404 "Cart not found".
CartOps == {"get_cart", "add_cart_item", "remove_cart_item", "delete_cart"}
CartLifecycleStep ==
    /\ \A c \in carts \ carts' :
           resp'.op = "delete_cart" /\ resp'.cart_id = c /\ resp'.status = 204
    /\ resp'.op \in CartOps =>
           LET c == resp'.cart_id
           IN  /\ ~HasCart(carts, c) =>
                      /\ resp'.status = 404
                      /\ resp'.detail = "Cart not found"
                      /\ UNCHANGED store
               /\ HasCart(carts, c) => resp'.detail # "Cart not found"
    /\ (resp'.op = "add_cart_item" /\ HasCart(carts, resp'.cart_id)
            /\ HasProduct(products, resp'.product_id)) =>
           resp'.status = 200
    /\ (resp'.op = "delete_cart" /\ HasCart(carts, resp'.cart_id)) =>
           LET c == resp'.cart_id
           IN  /\ resp'.status = 204
               /\ carts' = carts \ {c}
               /\ cart_items' = Restrict(cart_items,
                      {i \in DOMAIN cart_items : cart_items[i].cart_id # c})
               /\ UNCHANGED <<products, favorites, fk_enforced>>
EmptyCartSummary ==
    (resp.op \in {"get_cart", "remove_cart_item"} /\ resp.status = 200
         /\ CartItemsOf(cart_items, resp.cart_id) = {}) =>
        /\ HasCart(carts, resp.cart_id)
        /\ resp.summaries[resp.cart_id].items = NoRows
        /\ resp.summaries[resp.cart_id].total = 0
CartGoneOnlyByDelete == [][CartLifecycleStep]_vars /\ []EmptyCartSummary
\* a cart with line-items has just been deleted while another cart keeps its
\* line-item
DeletedCartHadItems ==
    /\ resp.op = "delete_cart"
    /\ resp.status = 204
    /\ resp.hit
    /\ ~HasCart(carts, resp.cart_id)
    /\ DOMAIN cart_items # {}

\* C12: an update_product changes no field of the product that its payload
\* does not carry (the id and the columns no payload can carry included) and,
\* when it answers 200, gives every field the payload carries the payload's
\* value; it leaves the other products, the carts, the line-items and the
\* favorites as they were; for an id that is no product it answers 404 and
\* changes nothing.
UpdateProductStep ==
    resp'.op = "update_product" =>
        LET p == resp'.product_id
            payload == resp'.payload
        IN  /\ ~HasProduct(products, p) =>
                   resp'.status = 404 /\ UNCHANGED store
            /\ HasProduct(products, p) =>
                   /\ resp'.status # 404
                   /\ DOMAIN products' = DOMAIN products
                   /\ \A x \in DOMAIN products \ {p} :
                          products'[x] = products[x]
                   /\ DOMAIN products'[p] = DOMAIN products[p]
                   /\ \A f \in DOMAIN products[p] \ DOMAIN payload :
                          products'[p][f] = products[p][f]
                   /\ resp'.status = 200 =>
                          \A f \in DOMAIN payload :
                              products'[p][f] = payload[f]
                   /\ UNCHANGED <<carts, cart_items, favorites, fk_enforced>>
UpdateChangesOnlyPayloadFields == [][UpdateProductStep]_vars
\* an update that carried only a name has just renamed a product whose
\* description, stock and brand are set
RenamedOnly ==
    /\ resp.op = "update_product"
    /\ resp.status = 200
    /\ DOMAIN resp.payload = {"name"}
    /\ LET product == products[resp.product_id]
       IN  /\ product.name = resp.payload.name
           /\ product.name = <<"A">>
           /\ product.description = <<"B">>
           /\ product.stock = <<"7">>
           /\ product.brand = <<"b">>

\* C13: a list_products with page >= 1 and 1 <= limit <= 100 answers 200 with
\* total the number of products its query matches, pages the least n with
\* n * limit >= total (0 when total is 0), and as products the matching
\* products from offset (page - 1) * limit on, at most limit of them and none
\* twice: min(limit, total - offset) of them, none when the page is beyond the
\* last.
ListProductsPaginates ==
    (/\ resp.op = "list_products"
     /\ resp.payload.page >= 1
     /\ resp.payload.limit >= 1
     /\ resp.payload.limit <= 100) =>
        LET matching == QueryIds(products, resp.payload.q)
            total == Cardinality(matching)
            limit == resp.payload.limit
            offset == (resp.payload.page - 1) * limit
            rest == IF total > offset THEN total - offset ELSE 0
            got == resp.page.products
        IN  /\ resp.status = 200
            /\ resp.page.page = resp.payload.page
            /\ resp.page.limit = limit
            /\ resp.page.total = total
            /\ total = 0 => resp.page.pages = 0
            /\ total > 0 =>
                   /\ resp.page.pages * limit >= total
                   /\ (resp.page.pages - 1) * limit < total
            /\ Len(got) <= limit
            /\ Len(got) = IF rest < limit THEN rest ELSE limit
            /\ \A k \in 1..Len(got) :
                   /\ got[k].id \in matching
                   /\ got[k].name = products[got[k].id].name
                   /\ got[k].price = products[got[k].id].price
            /\ \A j, k \in 1..Len(got) : j # k => got[j].id # got[k].id
\* the second and last page of three products that a query matches, limit 2
SecondPageOfThree ==
    /\ resp.op = "list_products"
    /\ resp.status = 200
    /\ resp.payload.q = <<"a">>
    /\ resp.payload.page = 2
    /\ resp.payload.limit = 2
    /\ resp.page.total = 3
    /\ resp.page.pages = 2
    /\ Len(resp.page.products) = 1

\* the clients whose add_cart_item found line-item i as existing
AddersTo(i) ==
    {k \in Clients : /\ reqs[k].op = "add_cart_item"
                     /\ reqs[k].existing = i}
RECURSIVE RequestedOver(_)
RequestedOver(K) ==
    IF K = {} THEN 0
    ELSE LET k == CHOOSE x \in K : TRUE
         IN  reqs[k].quantity + RequestedOver(K \ {k})
\* the quantity the line-item had before the first of the clients K read it
FirstLoaded(K) ==
    CHOOSE q \in {reqs[k].loaded : k \in K} :
        \A k \in K : q <= reqs[k].loaded

\* C14: whatever the interleaving, once every request has answered, a
\* line-item that two or more concurrent add_cart_item requests found and
\* incremented holds the quantity it had before them plus every requested
\* quantity: no increment is lost.
ConcurrentAddItemNoLostIncrement ==
    (\A k \in Clients : reqs[k].pc = "done") =>
        \A i \in DOMAIN cart_items \ {NoRow} :
            Cardinality(AddersTo(i)) >= 2 =>
                cart_items[i].quantity =
                    FirstLoaded(AddersTo(i)) + RequestedOver(AddersTo(i))
====
